---- MODULE Spec2Model ----
(***************************************************************************)
(* Model of the Grammar class of grammar-builder: the rule registry        *)
(* (define / root / build), the RuleBuilder combinators and the recursive  *)
(* parser that renders a rule as GBNF text.                                *)
(*                                                                         *)
(* A JavaScript string is a sequence of one-character strings.  A part of  *)
(* a sequence/oneOf rule that is a bare string ("typeof rule === string")  *)
(* is the record [value |-> s, ruleType |-> "string"]; a rule object is a  *)
(* record with the fields ruleType and cardinality (the two Symbol keys)   *)
(* and its payload (parts, id or range).  An absent cardinality key is the *)
(* value "undefined".                                                      *)
(***************************************************************************)
EXTENDS Integers, Sequences, FiniteSets, TLC

VARIABLES
  rules,       \* Grammar.rules: the own properties, in creation order
  last,        \* the outcome of the last define/root/build call
  production,  \* process.env.NODE_ENV === "production"
  call,        \* the RuleBuilder method called last, and on what
  node,        \* the rule that call returned
  text         \* this.parser(node)

grammarVars == <<rules, last>>
builderVars == <<call, node, text>>
vars == <<rules, last, production, call, node, text>>

(***************************************************************************)
(* Bounds of the model.                                                    *)
(***************************************************************************)
MaxRules == 2   \* define() adds at most this many names to a registry
MaxDepth == 1   \* a rule built by the combinators nests at most this deep

(***************************************************************************)
(* Strings.                                                                *)
(***************************************************************************)
Lower == {"a", "b", "o", "r", "t"}
Upper == {"A", "B", "R"}
Digit == {"0", "1", "2", "9"}

DigitVal(c) == CASE c = "0" -> 0 [] c = "1" -> 1 [] c = "2" -> 2 [] c = "9" -> 9

toLowerCase(c) ==
  CASE c = "A" -> "a" [] c = "B" -> "b" [] c = "R" -> "r" [] OTHER -> c

slice(s, from, to) == SubSeq(s, from, to)

startsWith(s, p) == Len(s) >= Len(p) /\ SubSeq(s, 1, Len(p)) = p

endsWith(s, p) == Len(s) >= Len(p) /\ SubSeq(s, Len(s) - Len(p) + 1, Len(s)) = p

RECURSIVE join(_, _)
join(strs, sep) ==
  IF strs = <<>> THEN <<>>
  ELSE IF Len(strs) = 1 THEN strs[1]
  ELSE strs[1] \o sep \o join(Tail(strs), sep)

(***************************************************************************)
(* lodash kebabCase on ASCII names: the name is split into words (a run of *)
(* lower-case letters with an optional leading capital, a run of capitals, *)
(* a run of digits; every other character separates words), the words are  *)
(* lower-cased and joined with "-".                                        *)
(***************************************************************************)
RunEnd(s, i, class) ==
  \* the last index of the maximal run of `class` characters starting at i
  LET stops == {j \in i..Len(s) : s[j] \notin class}
  IN IF stops = {} THEN Len(s)
     ELSE (CHOOSE j \in stops : \A k \in stops : j <= k) - 1

WordEnd(s, i) ==
  \* the last index of the word that starts at i (s[i] is a letter or digit)
  IF s[i] \in Digit THEN RunEnd(s, i, Digit)
  ELSE IF s[i] \in Lower THEN RunEnd(s, i, Lower)
  ELSE LET u == RunEnd(s, i, Upper)
       IN IF u < Len(s) /\ s[u + 1] \in Lower
          THEN IF u = i THEN RunEnd(s, i + 1, Lower) ELSE u - 1
          ELSE u

RECURSIVE words(_, _)
words(s, i) ==
  IF i > Len(s) THEN <<>>
  ELSE IF s[i] \notin (Lower \cup Upper \cup Digit) THEN words(s, i + 1)
  ELSE <<slice(s, i, WordEnd(s, i))>> \o words(s, WordEnd(s, i) + 1)

kebabCase(name) ==
  LET ws == words(name, 1)
  IN join([i \in 1..Len(ws) |-> [j \in 1..Len(ws[i]) |-> toLowerCase(ws[i][j])]],
          <<"-">>)

(***************************************************************************)
(* Completion of a call: a returned value, or a thrown Error.              *)
(***************************************************************************)
Return(v) == [value |-> v, threw |-> FALSE]
Throw(msg) == [threw |-> TRUE, message |-> msg]

(***************************************************************************)
(* RuleBuilder: the combinators.                                           *)
(***************************************************************************)
StringPart(s) == [value |-> s, ruleType |-> "string"]

sequence(parts) ==
  [ruleType |-> "sequence", parts |-> parts, cardinality |-> "undefined"]

oneOf(options) ==
  [ruleType |-> "oneOf", parts |-> options, cardinality |-> "undefined"]

ref(key) == [ruleType |-> "ref", cardinality |-> "undefined", id |-> key]

\* (a check of the closing bracket alone)
rangeAcceptedByEnding(str) ==
  \/ endsWith(str, <<"]">>)
  \/ endsWith(str, <<"]", "?">>)
  \/ endsWith(str, <<"]", "*">>)
  \/ endsWith(str, <<"]", "+">>)

rangeAccepted(str) ==
  /\ startsWith(str, <<"[">>)
  /\ \/ endsWith(str, <<"]">>)
     \/ endsWith(str, <<"]", "?">>)
     \/ endsWith(str, <<"]", "*">>)
     \/ endsWith(str, <<"]", "+">>)

rangeMessage(str) ==
  <<"Range must be in the form of a range literal (e.g. [0-9]), received: ">> \o str

\* (a range whose cardinality does not replace the literal it was read from)
rangeKeepsSuffix(str) ==
  IF ~rangeAccepted(str) THEN Throw(rangeMessage(str))
  ELSE LET lastChar == slice(str, Len(str), Len(str))
       IN Return(
            [range |-> str, ruleType |-> "range",
             cardinality |-> CASE lastChar = <<"?">> -> "optional"
                               [] lastChar = <<"*">> -> "zeroOrMore"
                               [] lastChar = <<"+">> -> "oneOrMore"
                               [] lastChar = <<"]">> -> "undefined"])

range(str) ==
  IF ~rangeAccepted(str) THEN Throw(rangeMessage(str))
  ELSE LET lastChar == slice(str, Len(str), Len(str))
           body == slice(str, 1, Len(str) - 1)
       IN Return(
            CASE lastChar = <<"?">> ->
                   [range |-> body, ruleType |-> "range", cardinality |-> "optional"]
              [] lastChar = <<"*">> ->
                   [range |-> body, ruleType |-> "range", cardinality |-> "zeroOrMore"]
              [] lastChar = <<"+">> ->
                   [range |-> body, ruleType |-> "range", cardinality |-> "oneOrMore"]
              [] lastChar = <<"]">> ->
                   [range |-> str, ruleType |-> "range", cardinality |-> "undefined"])

\* (a combinator that keeps a cardinality the rule already has)
oneOrMoreKeepsCardinality(rule) ==
  IF rule.cardinality = "undefined"
  THEN [rule EXCEPT !.cardinality = "oneOrMore"]
  ELSE rule

oneOrMore(rule) == [rule EXCEPT !.cardinality = "oneOrMore"]

zeroOrMore(rule) == [rule EXCEPT !.cardinality = "zeroOrMore"]

optional(rule) == [rule EXCEPT !.cardinality = "optional"]

\* the argument of a combinator after the call: `{...rule, ...}` copies the
\* rule and assigns nothing to it
\* (a combinator that sets the cardinality on the rule it was given)
oneOrMoreArgumentAssigned(rule) == [rule EXCEPT !.cardinality = "oneOrMore"]

oneOrMoreArgument(rule) == rule

zeroOrMoreArgument(rule) == rule

optionalArgument(rule) == rule

\* the conditions under which the three combinators call console.warn
oneOrMoreWarns(rule, prod) ==
  rule.cardinality # "undefined" /\ rule.cardinality # "oneOrMore" /\ ~prod

zeroOrMoreWarns(rule, prod) ==
  rule.cardinality # "undefined" /\ rule.cardinality # "oneOrMore" /\ ~prod

optionalWarns(rule, prod) ==
  rule.cardinality # "undefined" /\ rule.cardinality # "oneOrMore" /\ ~prod

(***************************************************************************)
(* Grammar.parser: a rule, or a bare string, as GBNF text.                 *)
(***************************************************************************)
quote(s) == <<"\"">> \o s \o <<"\"">>

cardinalityChar(rule) ==
  CASE rule.cardinality = "zeroOrMore" -> <<"*">>
    [] rule.cardinality = "oneOrMore" -> <<"+">>
    [] rule.cardinality = "optional" -> <<"?">>
    [] rule.cardinality = "undefined" -> <<>>

parenthesize(s) == <<"(">> \o s \o <<")">>

\* a sequence that drops the parentheses around a repeated group
sequenceStrBare(resultStr, cardChar) == resultStr \o cardChar

\* a sequence that parenthesizes itself like a oneOf does
sequenceStrGrouped(resultStr, cardChar) == parenthesize(resultStr) \o cardChar

sequenceStr(resultStr, cardChar) ==
  IF cardChar # <<>> THEN parenthesize(resultStr) \o cardChar ELSE resultStr

\* a oneOf that parenthesizes itself only when it is repeated
oneOfStrLikeSequence(joined, cardChar) ==
  IF cardChar # <<>> THEN parenthesize(joined) \o cardChar ELSE joined

oneOfStr(joined, cardChar) == parenthesize(joined) \o cardChar

\* a ref that is parenthesized when it is repeated
refStrGrouped(id, cardChar) ==
  IF cardChar # <<>> THEN parenthesize(kebabCase(id)) \o cardChar ELSE kebabCase(id)

\* (a reference printed as it was written)
refStrVerbatim(id, cardChar) == id \o cardChar

refStr(id, cardChar) == kebabCase(id) \o cardChar

\* (a range printed without its cardinality)
rangeStrWithoutCardinality(r, cardChar) == r

rangeStr(r, cardChar) == r \o cardChar

RECURSIVE parser(_)
parser(rule) ==
  IF rule.ruleType = "string" THEN quote(rule.value)
  ELSE CASE rule.ruleType = "sequence" ->
              sequenceStr(join([i \in 1..Len(rule.parts) |-> parser(rule.parts[i])],
                               <<" ">>),
                          cardinalityChar(rule))
         [] rule.ruleType = "oneOf" ->
              oneOfStr(join([i \in 1..Len(rule.parts) |-> parser(rule.parts[i])],
                            <<" ", "|", " ">>),
                       cardinalityChar(rule))
         [] rule.ruleType = "ref" -> refStr(rule.id, cardinalityChar(rule))
         [] rule.ruleType = "range" -> rangeStr(rule.range, cardinalityChar(rule))

(***************************************************************************)
(* Grammar.rules: a JavaScript object used as a map.  It is modelled as    *)
(* the sequence of its own properties [key, value] in creation order.      *)
(***************************************************************************)
ROOT == <<"r", "o", "o", "t">>

hasOwn(rs, key) == \E i \in 1..Len(rs) : rs[i].key = key

\* rs[key] = value: an existing property keeps its place
\* (an assignment that adds an entry even when the key has one)
assignAppended(rs, key, value) == Append(rs, [value |-> value, key |-> key])

assign(rs, key, value) ==
  IF hasOwn(rs, key)
  THEN [i \in 1..Len(rs) |-> IF rs[i].key = key
                             THEN [value |-> value, key |-> key]
                             ELSE rs[i]]
  ELSE Append(rs, [value |-> value, key |-> key])

\* a property key that is a canonical array index ("0", "1", "12", ...)
isArrayIndex(key) ==
  /\ Len(key) >= 1
  /\ \A i \in 1..Len(key) : key[i] \in Digit
  /\ Len(key) = 1 \/ key[1] # "0"

RECURSIVE toNumber(_)
toNumber(key) ==
  IF key = <<>> THEN 0
  ELSE 10 * toNumber(slice(key, 1, Len(key) - 1)) + DigitVal(key[Len(key)])

\* Object.entries: array-index keys first, ascending, then the other keys
\* in creation order
ObjectEntries(rs) ==
  SortSeq(SelectSeq(rs, LAMBDA e : isArrayIndex(e.key)),
          LAMBDA e, f : toNumber(e.key) < toNumber(f.key))
    \o SelectSeq(rs, LAMBDA e : ~isArrayIndex(e.key))

(***************************************************************************)
(* Grammar.build                                                           *)
(***************************************************************************)
ruleLine(ruleName, rule) ==
  kebabCase(ruleName) \o <<" ", ":", ":", "=", " ">> \o parser(rule)

buildLines(rs) ==
  LET es == ObjectEntries(rs)
  IN [i \in 1..Len(es) |-> ruleLine(es[i].key, es[i].value)]

\* build() without its check that root is set (as in the first revision)
buildUnguarded(rs) == Return(join(buildLines(rs), <<"\n">>))

\* the names a rule refers to, and those of them no rule is stored under
RECURSIVE refIds(_)
refIds(rule) ==
  CASE rule.ruleType = "ref" -> {rule.id}
    [] rule.ruleType \in {"sequence", "oneOf"} ->
         UNION {refIds(rule.parts[i]) : i \in 1..Len(rule.parts)}
    [] OTHER -> {}

danglingIds(rs) ==
  UNION {refIds(rs[i].value) : i \in 1..Len(rs)} \ {rs[i].key : i \in 1..Len(rs)}

\* (a build() that checks that every reference names a stored rule)
buildValidated(rs) ==
  IF ~hasOwn(rs, ROOT) THEN Throw("No root rule defined")
  ELSE IF danglingIds(rs) # {} THEN Throw("Reference to an undefined rule")
  ELSE Return(join(buildLines(rs), <<"\n">>))

build(rs) ==
  IF ~hasOwn(rs, ROOT) THEN Throw("No root rule defined")
  ELSE Return(join(buildLines(rs), <<"\n">>))

(***************************************************************************)
(* The callers: the names passed to define and the builder functions       *)
(* passed to define and root.  A builder function is given by what running *)
(* it with this.builder does: its completion and the number of             *)
(* console.warn calls it makes.                                            *)
(***************************************************************************)
Keys ==
  { ROOT,
    <<"R", "o", "o", "t">>,
    <<"a", "B">>,
    <<"a", "-", "b">>,
    <<"1">> }

Ran(completion, warnings) == [completion |-> completion, warnings |-> warnings]

BuilderFns(prod) ==
  { \* (r) => r.sequence("a", r.oneOf("b", r.ref("aB")))
    Ran(Return(sequence(<<StringPart(<<"a">>),
                          oneOf(<<StringPart(<<"b">>), ref(<<"a", "B">>)>>)>>)), 0),
    \* (r) => r.range("[0-9]+")
    Ran(range(<<"[", "0", "-", "9", "]", "+">>), 0),
    \* (r) => r.range("0-9")
    Ran(range(<<"0", "-", "9">>), 0),
    \* (r) => r.optional(r.zeroOrMore(r.ref("Root")))
    Ran(Return(optional(zeroOrMore(ref(<<"R", "o", "o", "t">>)))),
        (IF zeroOrMoreWarns(ref(<<"R", "o", "o", "t">>), prod) THEN 1 ELSE 0)
          + (IF optionalWarns(zeroOrMore(ref(<<"R", "o", "o", "t">>)), prod)
             THEN 1 ELSE 0)) }

(***************************************************************************)
(* Grammar.define, Grammar.root, Grammar.build as steps of one Grammar.    *)
(* last records what the call did: whether it threw and with what message, *)
(* the text it returned, whether it ran the builder function and how many  *)
(* times it called console.warn; rebuilt marks a build() that directly     *)
(* follows another build(); overwrite tells whether define warned that the *)
(* rule was already defined; result is the rule the builder function       *)
(* returned, if it returned; fnWarned counts the console.warn calls made   *)
(* inside the builder function; hadRoot tells whether the registry had a   *)
(* root rule when root() was called.                                       *)
(***************************************************************************)
Outcome(op, key, threw, message, returned, invoked, warned) ==
  [threw |-> threw, message |-> message, key |-> key, op |-> op,
   returned |-> returned, invoked |-> invoked, warned |-> warned,
   rebuilt |-> FALSE, overwrite |-> FALSE, result |-> [ruleType |-> "none"],
   fnWarned |-> 0, hadRoot |-> FALSE]

definedNames(rs) == {rs[i].key : i \in 1..Len(rs)} \ {ROOT}

\* define() without its reserved-name check
isReservedKeyUnchecked(key) == FALSE

isReservedKey(key) == key = ROOT

\* define() without its check that root is set (as in the first revision)
isFinalizedUnchecked(rs) == FALSE

isFinalized(rs) == hasOwn(rs, ROOT)

redefinitionWarns(rs, key, prod) == hasOwn(rs, key) /\ ~prod

DefineCall(key, fn) ==
  /\ \/ isReservedKey(key)
     \/ isFinalized(rules)
     \/ hasOwn(rules, key)
     \/ Cardinality(definedNames(rules)) < MaxRules
  /\ IF isReservedKey(key)
     THEN /\ rules' = rules
          /\ last' = Outcome("define", key, TRUE,
                             "Cannot define a root rule, use root() instead",
                             <<>>, FALSE, 0)
     ELSE IF isFinalized(rules)
     THEN /\ rules' = rules
          /\ last' = Outcome("define", key, TRUE,
                             "Cannot extend a grammar with a root rule",
                             <<>>, FALSE, 0)
     ELSE LET o == redefinitionWarns(rules, key, production)
              w == IF o THEN 1 ELSE 0
          IN IF fn.completion.threw
             THEN /\ rules' = rules
                  /\ last' = [Outcome("define", key, TRUE, fn.completion.message,
                                      <<>>, TRUE, w + fn.warnings)
                                EXCEPT !.overwrite = o,
                                       !.fnWarned = fn.warnings]
             ELSE /\ rules' = assign(rules, key, fn.completion.value)
                  /\ last' = [Outcome("define", key, FALSE, "",
                                      <<>>, TRUE, w + fn.warnings)
                                EXCEPT !.overwrite = o,
                                       !.fnWarned = fn.warnings,
                                       !.result = fn.completion.value]

Define(key, fn) ==
  /\ DefineCall(key, fn)
  /\ UNCHANGED <<production, builderVars>>

\* (a root() that refuses to replace the root rule)
RootCallOnce(fn) ==
  IF hasOwn(rules, ROOT)
  THEN /\ rules' = rules
       /\ last' = [Outcome("root", ROOT, TRUE, "Root rule already defined",
                           <<>>, FALSE, 0)
                     EXCEPT !.hadRoot = TRUE]
  ELSE IF fn.completion.threw
  THEN /\ rules' = rules
       /\ last' = [Outcome("root", ROOT, TRUE, fn.completion.message,
                           <<>>, TRUE, fn.warnings)
                     EXCEPT !.fnWarned = fn.warnings]
  ELSE /\ rules' = assign(rules, ROOT, fn.completion.value)
       /\ last' = [Outcome("root", ROOT, FALSE, "", <<>>, TRUE, fn.warnings)
                     EXCEPT !.fnWarned = fn.warnings,
                            !.result = fn.completion.value]

RootCall(fn) ==
  IF fn.completion.threw
  THEN /\ rules' = rules
       /\ last' = [Outcome("root", ROOT, TRUE, fn.completion.message,
                           <<>>, TRUE, fn.warnings)
                     EXCEPT !.fnWarned = fn.warnings,
                            !.hadRoot = hasOwn(rules, ROOT)]
  ELSE /\ rules' = assign(rules, ROOT, fn.completion.value)
       /\ last' = [Outcome("root", ROOT, FALSE, "", <<>>, TRUE, fn.warnings)
                     EXCEPT !.fnWarned = fn.warnings,
                            !.hadRoot = hasOwn(rules, ROOT),
                            !.result = fn.completion.value]

Root(fn) ==
  /\ RootCall(fn)
  /\ UNCHANGED <<production, builderVars>>

\* a build() that normalises the names in the registry itself
BuildRenaming ==
  /\ LET b == build(rules)
         o == IF b.threw
              THEN Outcome("build", <<>>, TRUE, b.message, <<>>, FALSE, 0)
              ELSE Outcome("build", <<>>, FALSE, "", b.value, FALSE, 0)
     IN last' = [o EXCEPT !.rebuilt = (last.op = "build")]
  /\ rules' = [i \in 1..Len(rules) |->
                [value |-> rules[i].value, key |-> kebabCase(rules[i].key)]]
  /\ UNCHANGED <<production, builderVars>>

Build ==
  /\ LET b == build(rules)
         o == IF b.threw
              THEN Outcome("build", <<>>, TRUE, b.message, <<>>, FALSE, 0)
              ELSE Outcome("build", <<>>, FALSE, "", b.value, FALSE, 0)
     IN last' = [o EXCEPT !.rebuilt = (last.op = "build")]
  /\ UNCHANGED <<rules, production, builderVars>>

(***************************************************************************)
(* The combinators and the parser on their own: a builder function calls   *)
(* the RuleBuilder methods one after the other, each on literals or on the *)
(* rule the call before it returned, and the rule is rendered.             *)
(***************************************************************************)
Called(method, arg, threw, message, warned) ==
  [threw |-> threw, message |-> message, warned |-> warned,
   method |-> method, arg |-> arg]

NoCall == Called("none", <<>>, FALSE, <<>>, FALSE)

NoRule == [ruleType |-> "none"]

LiteralStrings == { <<"a">>, <<"a", "\"", "b">> }

RefKeys == { <<"a", "B">> }

RangeStrings ==
  { <<"[", "0", "-", "9", "]">>,
    <<"[", "0", "-", "9", "]", "?">>,
    <<"[", "0", "-", "9", "]", "*">>,
    <<"[", "0", "-", "9", "]", "+">>,
    <<"0", "-", "9">>,
    <<"[", "0", "-", "9">>,
    <<"0", "-", "9", "]">>,
    <<"[", "0", "-", "9", "]", "?", "+">> }

\* part lists made of literals only
FreshParts ==
  { <<>>, <<StringPart(<<"a">>), StringPart(<<"b">>)>> }
    \cup { <<StringPart(s)>> : s \in LiteralStrings }

\* part lists that hold the rule built so far
NestParts(rule) ==
  { <<rule>>, <<StringPart(<<"a">>), rule, StringPart(<<"b">>)>> }

\* how deep rules nest in a rule: 0 for a rule none of whose parts is a rule
RECURSIVE depth(_)
depth(rule) ==
  IF rule.ruleType \notin {"sequence", "oneOf"} THEN 0
  ELSE LET ds == {0} \cup {1 + depth(rule.parts[i]) :
                             i \in {j \in 1..Len(rule.parts) :
                                      rule.parts[j].ruleType # "string"}}
       IN CHOOSE d \in ds : \A e \in ds : e <= d

PartLists(rule) ==
  FreshParts
    \cup (IF rule # NoRule /\ depth(rule) < MaxDepth THEN NestParts(rule) ELSE {})

Returns(method, arg, rule, warned) ==
  /\ call' = Called(method, arg, FALSE, <<>>, warned)
  /\ node' = rule
  /\ text' = parser(rule)

Returned(method, arg, rule, warned) ==
  /\ Returns(method, arg, rule, warned)
  /\ UNCHANGED <<grammarVars, production>>

CallSequence(parts) == Returned("sequence", parts, sequence(parts), FALSE)

CallOneOf(options) == Returned("oneOf", options, oneOf(options), FALSE)

CallRef(key) == Returned("ref", key, ref(key), FALSE)

RangeCall(str) ==
  LET c == range(str)
  IN IF c.threw
     THEN /\ call' = Called("range", str, TRUE, c.message, FALSE)
          /\ node' = NoRule
          /\ text' = <<>>
     ELSE Returns("range", str, c.value, FALSE)

CallRange(str) ==
  /\ RangeCall(str)
  /\ UNCHANGED <<grammarVars, production>>

\* call.arg is the argument as the call leaves it
CallOneOrMore ==
  /\ node # NoRule
  /\ Returned("oneOrMore", oneOrMoreArgument(node), oneOrMore(node),
              oneOrMoreWarns(node, production))

CallZeroOrMore ==
  /\ node # NoRule
  /\ Returned("zeroOrMore", zeroOrMoreArgument(node), zeroOrMore(node),
              zeroOrMoreWarns(node, production))

CallOptional ==
  /\ node # NoRule
  /\ Returned("optional", optionalArgument(node), optional(node),
              optionalWarns(node, production))

(***************************************************************************)
(* define(key, (r) => r.range(str)) and root((r) => r.range(str)): the     *)
(* call of r.range and the call of define or root that encloses it, as one *)
(* step.  A define that throws before it runs the builder function calls   *)
(* no builder method.                                                      *)
(***************************************************************************)
RangeKeys == { ROOT, <<"a", "B">> }

DefineRange(key, str) ==
  /\ DefineCall(key, Ran(range(str), 0))
  /\ IF isReservedKey(key) \/ isFinalized(rules)
     THEN UNCHANGED builderVars
     ELSE RangeCall(str)
  /\ UNCHANGED production

RootRange(str) ==
  /\ RootCall(Ran(range(str), 0))
  /\ RangeCall(str)
  /\ UNCHANGED production

Init ==
  /\ rules = <<>>
  /\ last = Outcome("new", <<>>, FALSE, "", <<>>, FALSE, 0)
  /\ production \in BOOLEAN
  /\ call = NoCall
  /\ node = NoRule
  /\ text = <<>>

Next ==
  \/ \E key \in Keys : \E fn \in BuilderFns(production) : Define(key, fn)
  \/ \E fn \in BuilderFns(production) : Root(fn)
  \/ Build

Spec == Init /\ [][Next]_vars

NextBuilder ==
  \/ \E parts \in PartLists(node) : CallSequence(parts)
  \/ \E options \in PartLists(node) : CallOneOf(options)
  \/ \E key \in RefKeys : CallRef(key)
  \/ \E str \in RangeStrings : CallRange(str)
  \/ CallOneOrMore
  \/ CallZeroOrMore
  \/ CallOptional

BuilderSpec == Init /\ [][NextBuilder]_vars

NextRange ==
  \/ \E key \in RangeKeys : \E str \in RangeStrings : DefineRange(key, str)
  \/ \E str \in RangeStrings : RootRange(str)
  \/ Build

RangeSpec == Init /\ [][NextRange]_vars

(***************************************************************************)
(* Properties of the registry (checked under Spec).                        *)
(***************************************************************************)
StructuralErrors ==
  { "Cannot define a root rule, use root() instead",
    "Cannot extend a grammar with a root rule",
    "No root rule defined" }

nonRootEntries(rs) == SelectSeq(rs, LAMBDA e : e.key # ROOT)

\* C1: once root is set, every define call throws a structural error and
\* leaves the registry alone, and every later call keeps the root entry and
\* the defined rules (names, nodes and order) as they were.
C1_FinalizedRegistryIsFrozen ==
  [][hasOwn(rules, ROOT) =>
       /\ hasOwn(rules', ROOT)
       /\ nonRootEntries(rules') = nonRootEntries(rules)
       /\ last'.op = "define" =>
            /\ last'.threw
            /\ last'.message \in StructuralErrors
            /\ rules' = rules]_vars

C1_Witness ==
  /\ hasOwn(rules, ROOT)
  /\ definedNames(rules) # {}
  /\ last.op = "define"
  /\ last.key # ROOT
  /\ last.threw
  /\ last.message = "Cannot extend a grammar with a root rule"

\* C2: define("root", fn) throws "Cannot define a root rule" in every state
\* of the registry without running fn and without changing the registry,
\* and a root entry only ever appears by a root() call that returns.
C2_DefineRootAlwaysRejected ==
  [][/\ (last'.op = "define" /\ last'.key = ROOT) =>
          /\ last'.threw
          /\ last'.message = "Cannot define a root rule, use root() instead"
          /\ ~last'.invoked
          /\ rules' = rules
     /\ (~hasOwn(rules, ROOT) /\ hasOwn(rules', ROOT)) =>
          /\ last'.op = "root"
          /\ ~last'.threw]_vars

C2_Witness ==
  /\ last.op = "define"
  /\ last.key = ROOT
  /\ last.threw
  /\ ~last.invoked
  /\ hasOwn(rules, ROOT)
  /\ definedNames(rules) # {}

\* C3: build() throws "No root rule defined" and returns no text exactly
\* when the registry has no root entry, however many rules are defined.
C3_BuildNeedsRoot ==
  last.op = "build" =>
    /\ last.threw <=> ~hasOwn(rules, ROOT)
    /\ last.threw => (last.message = "No root rule defined" /\ last.returned = <<>>)
    /\ ~last.threw => last.returned # <<>>

C3_Witness ==
  /\ last.op = "build"
  /\ last.threw
  /\ Cardinality(definedNames(rules)) = MaxRules
  /\ ~hasOwn(rules, ROOT)

\* C4: the text build() returns is one line per entry, `name ::= rule`, in
\* the order in which the names were first defined, the root line last,
\* joined by single newlines, for every choice of names.
C4_BuildFollowsDefinitionOrder ==
  (last.op = "build" /\ ~last.threw) =>
    /\ last.returned =
         join([i \in 1..Len(rules) |-> ruleLine(rules[i].key, rules[i].value)],
              <<"\n">>)
    /\ rules[Len(rules)].key = ROOT

\* C5: build() does not change the registry, and a build() that directly
\* follows a build() returns the same text.
C5_BuildIsPureRead ==
  [][last'.op = "build" =>
       /\ rules' = rules
       /\ last.op = "build" =>
            /\ last'.threw = last.threw
            /\ last'.returned = last.returned]_vars

C5_Witness ==
  /\ last.op = "build"
  /\ last.rebuilt
  /\ ~last.threw
  /\ definedNames(rules) # {}

(***************************************************************************)
(* Properties of the combinators and the parser (checked under             *)
(* BuilderSpec).                                                           *)
(***************************************************************************)
CardinalityMethods == {"zeroOrMore", "oneOrMore", "optional"}

\* the glyph of a cardinality (or of the combinator that sets it)
glyph(cardinality) ==
  CASE cardinality = "zeroOrMore" -> <<"*">>
    [] cardinality = "oneOrMore" -> <<"+">>
    [] cardinality = "optional" -> <<"?">>
    [] OTHER -> <<>>

RECURSIVE escapeQuotes(_)
escapeQuotes(s) ==
  IF s = <<>> THEN <<>>
  ELSE (IF s[1] = "\"" THEN <<"\\", "\"">> ELSE <<s[1]>>) \o escapeQuotes(Tail(s))

partTexts(parts) == [i \in 1..Len(parts) |-> parser(parts[i])]

\* C6: a sequence whose only part is the literal s renders as s between
\* double quotes, every double quote inside s preceded by a backslash.
C6_LiteralIsQuotedAndEscaped ==
  (call.method = "sequence" /\ Len(call.arg) = 1 /\ call.arg[1].ruleType = "string") =>
    text = <<"\"">> \o escapeQuotes(call.arg[1].value) \o <<"\"">>

\* C7 as claimed: a cardinality combinator applied to a rule n of any kind
\* that has no modifier renders as ( render(n) ) and the glyph.
C7_CombinatorAlwaysParenthesizes ==
  (call.method \in CardinalityMethods /\ call.arg.cardinality = "undefined") =>
    text = <<"(">> \o parser(call.arg) \o <<")">> \o glyph(call.method)

\* C7 as amended: a cardinality combinator applied to a rule n that has no
\* modifier renders as ( render(n) ) and the glyph when n is a sequence,
\* and as render(n) and the glyph, no parentheses added, when n is a oneOf,
\* a ref or a range.
C7_CombinatorParenthesizesSequences ==
  (call.method \in CardinalityMethods /\ call.arg.cardinality = "undefined") =>
    text = IF call.arg.ruleType = "sequence"
           THEN <<"(">> \o parser(call.arg) \o <<")">> \o glyph(call.method)
           ELSE parser(call.arg) \o glyph(call.method)

C7_Witness ==
  /\ call.method = "zeroOrMore"
  /\ call.arg.cardinality = "undefined"
  /\ call.arg.ruleType = "oneOf"
  /\ Len(call.arg.parts) = 3
  /\ text # <<"(">> \o parser(call.arg) \o <<")">> \o glyph(call.method)

\* C8: a rule that carries a modifier renders as: the normalized name and
\* the glyph (ref); the stored pattern and the glyph (range); its one
\* parenthesized group and the glyph (oneOf); its space-joined parts in one
\* pair of parentheses and the glyph (sequence).
C8_CardinalityPlacement ==
  (node # NoRule /\ node.cardinality # "undefined") =>
    text =
      CASE node.ruleType = "ref" -> kebabCase(node.id) \o glyph(node.cardinality)
        [] node.ruleType = "range" -> node.range \o glyph(node.cardinality)
        [] node.ruleType = "oneOf" ->
             <<"(">> \o join(partTexts(node.parts), <<" ", "|", " ">>) \o <<")">>
               \o glyph(node.cardinality)
        [] node.ruleType = "sequence" ->
             <<"(">> \o join(partTexts(node.parts), <<" ">>) \o <<")">>
               \o glyph(node.cardinality)

C8_Witness ==
  /\ node # NoRule
  /\ node.ruleType = "ref"
  /\ node.cardinality = "optional"
  /\ call.method = "optional"
  /\ text = <<"a", "-", "b", "?">>

\* the text of a oneOf rule: its options joined by " | " in one pair of
\* parentheses, then its glyph if it has one
alternation(rule) ==
  <<"(">> \o join(partTexts(rule.parts), <<" ", "|", " ">>) \o <<")">>
    \o glyph(rule.cardinality)

\* the text of a sequence or oneOf rule made from the texts of its parts
composed(rule, strs) ==
  IF rule.ruleType = "oneOf"
  THEN <<"(">> \o join(strs, <<" ", "|", " ">>) \o <<")">> \o glyph(rule.cardinality)
  ELSE IF rule.cardinality = "undefined" THEN join(strs, <<" ">>)
  ELSE <<"(">> \o join(strs, <<" ">>) \o <<")">> \o glyph(rule.cardinality)

\* C9: a oneOf rule renders as its options joined by " | " in one pair of
\* parentheses of its own (then its glyph, if any), at the top level and as
\* a part of a sequence or of another oneOf, with any number of options.
C9_OneOfAlwaysParenthesized ==
  (node # NoRule) =>
    /\ node.ruleType = "oneOf" => text = alternation(node)
    /\ node.ruleType \in {"sequence", "oneOf"} =>
         \A i \in 1..Len(node.parts) :
           node.parts[i].ruleType = "oneOf" =>
             text = composed(node, [j \in 1..Len(node.parts) |->
                                      IF j = i THEN alternation(node.parts[j])
                                      ELSE parser(node.parts[j])])

C9_Witness ==
  /\ node # NoRule
  /\ node.ruleType = "oneOf"
  /\ node.cardinality = "undefined"
  /\ Len(node.parts) = 3
  /\ node.parts[2].ruleType = "oneOf"
  /\ node.parts[2].cardinality = "undefined"
  /\ node.parts[2].parts = <<>>
  /\ text = <<"(", "\"", "a", "\"", " ", "|", " ", "(", ")", " ", "|", " ",
              "\"", "b", "\"", ")">>

\* the parts of a sequence with the parts of its i-th part written inline
inlined(parts, i) ==
  SubSeq(parts, 1, i - 1) \o parts[i].parts \o SubSeq(parts, i + 1, Len(parts))

plainSequence(rule) == rule.ruleType = "sequence" /\ rule.cardinality = "undefined"

\* C10 as claimed: a sequence without modifier adds no parentheses, and a
\* sequence without modifier nested in it renders as if its parts were
\* written inline, whatever the part lists (the nested one possibly empty).
C10_NestedSequenceIsInline ==
  (node # NoRule /\ plainSequence(node)) =>
    /\ text = join(partTexts(node.parts), <<" ">>)
    /\ \A i \in 1..Len(node.parts) :
         plainSequence(node.parts[i]) =>
           text = parser(sequence(inlined(node.parts, i)))

\* C10 as amended: the same, for a nested sequence that has at least one
\* part, or that is the only part of the enclosing sequence.
C10_NonEmptyNestedSequenceIsInline ==
  (node # NoRule /\ plainSequence(node)) =>
    /\ text = join(partTexts(node.parts), <<" ">>)
    /\ \A i \in 1..Len(node.parts) :
         (plainSequence(node.parts[i])
            /\ (node.parts[i].parts # <<>> \/ Len(node.parts) = 1)) =>
           text = parser(sequence(inlined(node.parts, i)))

C10_Witness ==
  /\ node # NoRule
  /\ plainSequence(node)
  /\ Len(node.parts) = 3
  /\ plainSequence(node.parts[2])
  /\ Len(node.parts[2].parts) = 2
  /\ text = <<"\"", "a", "\"", " ", "\"", "a", "\"", " ", "\"", "b", "\"", " ",
              "\"", "b", "\"">>

(***************************************************************************)
(* Range literals.                                                         *)
(***************************************************************************)
Glyphs == {"?", "*", "+"}

\* str begins with "[" and ends with "]", "]?", "]*" or "]+"
rangeLiteral(str) ==
  /\ Len(str) >= 1
  /\ str[1] = "["
  /\ \/ str[Len(str)] = "]"
     \/ /\ Len(str) >= 2
        /\ str[Len(str) - 1] = "]"
        /\ str[Len(str)] \in Glyphs

\* C11: range(pattern) returns a rule exactly when the pattern begins with
\* "[" and ends with "]", "]?", "]*" or "]+"; for every other pattern it
\* throws an error whose message contains the pattern verbatim, and the
\* define or root call whose builder function made the call throws the same
\* error and leaves the registry as it was.
C11_RangeValidation ==
  [][ last'.invoked =>
        /\ call'.method = "range"
        /\ call'.threw <=> ~rangeLiteral(call'.arg)
        /\ last'.threw <=> call'.threw
        /\ call'.threw =>
             /\ endsWith(call'.message, call'.arg)
             /\ last'.message = call'.message
             /\ node' = NoRule
             /\ rules' = rules
        /\ ~call'.threw =>
             /\ node'.ruleType = "range"
             /\ hasOwn(rules', last'.key)
             /\ \A i \in 1..Len(rules') :
                  rules'[i].key = last'.key => rules'[i].value = node' ]_vars

\* a define whose builder function passed 0-9] to range threw and kept the
\* rule stored before
C11_Witness ==
  /\ last.op = "define"
  /\ last.invoked
  /\ last.threw
  /\ call.method = "range"
  /\ call.threw
  /\ call.arg = <<"0", "-", "9", "]">>
  /\ hasOwn(rules, last.key)

\* C12: the rule range returns for an accepted pattern holds a range that
\* begins with "[" and ends with "]": a pattern that ends with "]?", "]*"
\* or "]+" is stored without its last character and with the cardinality
\* optional, zeroOrMore or oneOrMore, a pattern that ends with "]" is stored
\* as it is and with no cardinality.
C12_RangeSplitsCardinality ==
  (call.method = "range" /\ ~call.threw) =>
    LET p == call.arg
        c == p[Len(p)]
    IN /\ node.ruleType = "range"
       /\ node.range[1] = "["
       /\ node.range[Len(node.range)] = "]"
       /\ c = "]" => node.range = p /\ node.cardinality = "undefined"
       /\ c \in Glyphs =>
            /\ node.range = SubSeq(p, 1, Len(p) - 1)
            /\ node.cardinality = CASE c = "?" -> "optional"
                                    [] c = "*" -> "zeroOrMore"
                                    [] c = "+" -> "oneOrMore"

\* range("[0-9]*") returned the range [0-9] with the cardinality zeroOrMore
C12_Witness ==
  /\ call.method = "range"
  /\ call.arg = <<"[", "0", "-", "9", "]", "*">>
  /\ node.ruleType = "range"
  /\ node.range = <<"[", "0", "-", "9", "]">>
  /\ node.cardinality = "zeroOrMore"

\* C13: the text of the rule range returns for an accepted pattern is the
\* pattern itself, and a grammar that holds only the root rule range(p)
\* builds to "root ::= " followed by p.
C13_RangeRoundTrip ==
  (call.method = "range" /\ ~call.threw) =>
    /\ text = call.arg
    /\ parser(node) = call.arg
    /\ (last.op = "build" /\ rules = <<[value |-> node, key |-> ROOT]>>) =>
         /\ ~last.threw
         /\ last.returned = <<"r", "o", "o", "t", " ", ":", ":", "=", " ">> \o call.arg

\* the grammar whose root is range("[0-9]?") was built
C13_Witness ==
  /\ last.op = "build"
  /\ ~last.threw
  /\ call.method = "range"
  /\ call.arg = <<"[", "0", "-", "9", "]", "?">>
  /\ rules = <<[value |-> node, key |-> ROOT]>>
  /\ last.returned = <<"r", "o", "o", "t", " ", ":", ":", "=", " ",
                       "[", "0", "-", "9", "]", "?">>

(***************************************************************************)
(* Failed calls, the place of the root line, warnings.                     *)
(***************************************************************************)
\* C14: a define, root or build call that throws (reserved name, registry
\* with a root, missing root, builder function that throws) leaves the
\* registry as it was and has no other effect: it calls console.warn not
\* once.
C14_FailedCallHasNoEffect ==
  [][ last'.threw => (rules' = rules /\ last'.warned = 0) ]_vars

rootRule(rs) == (CHOOSE i \in 1..Len(rs) : rs[i].key = ROOT)

\* C15: the text build() returns begins with the line of the root rule,
\* the lines of the rules added with define come after it.
C15_RootLineFirst ==
  (last.op = "build" /\ ~last.threw) =>
    LET rootLine == ruleLine(ROOT, rules[rootRule(rules)].value)
    IN /\ startsWith(last.returned, rootLine)
       /\ nonRootEntries(rules) # <<>> =>
            startsWith(last.returned, rootLine \o <<"\n">>)

\* C16: outside production oneOrMore, zeroOrMore and optional call
\* console.warn exactly when the rule they are given has a cardinality
\* other than the one they apply; they are silent when it has none or the
\* same one, and always in production.
C16_WarnsIffOtherCardinality ==
  call.method \in CardinalityMethods =>
    (call.warned <=>
       /\ ~production
       /\ call.arg.cardinality \notin {"undefined", call.method})

(***************************************************************************)
(* Cardinality combinators, redefinition, references.                      *)
(***************************************************************************)
\* C17: a rule has one cardinality and the last one applied wins: the rule
\* oneOrMore, zeroOrMore or optional returns has the cardinality of that
\* combinator whatever the rule it was given had (a range read from a
\* literal with a glyph included), and its text ends with that one glyph,
\* not with two.
C17_LastCardinalityWins ==
  call.method \in CardinalityMethods =>
    /\ node.cardinality = call.method
    /\ endsWith(text, glyph(call.method))
    /\ Len(text) >= 2
    /\ text[Len(text) - 1] \notin Glyphs

\* oneOrMore was applied to a range that had the cardinality zeroOrMore
C17_Witness ==
  /\ call.method = "oneOrMore"
  /\ call.arg.ruleType = "range"
  /\ call.arg.cardinality = "zeroOrMore"
  /\ node.cardinality = "oneOrMore"
  /\ text = <<"[", "0", "-", "9", "]", "+">>

payload(rule) == [rule EXCEPT !.cardinality = "undefined"]

\* C18: oneOrMore, zeroOrMore and optional leave the rule they are given as
\* it was, with the cardinality and the text it had before the call, and
\* return a rule of the same kind and payload that differs in the
\* cardinality alone.
C18_CombinatorKeepsArgument ==
  [][ call'.method \in CardinalityMethods =>
        /\ call'.arg = node
        /\ call'.arg.cardinality = node.cardinality
        /\ parser(call'.arg) = text
        /\ node'.ruleType = node.ruleType
        /\ payload(node') = payload(node)
        /\ node'.cardinality = call'.method ]_vars

\* oneOrMore returned a rule with another cardinality than its argument has
C18_Witness ==
  /\ call.method = "oneOrMore"
  /\ call.arg.ruleType = "sequence"
  /\ call.arg.cardinality = "optional"
  /\ node.cardinality = "oneOrMore"
  /\ node.parts = call.arg.parts

\* C19: a define of a name the registry has, before root is set and with a
\* builder function that returns, stores the returned rule under the name,
\* which keeps one entry, leaves every other entry as it was, and warns of
\* the overwrite exactly when the process is not in production; a define
\* of a name the registry has not adds an entry and gives no such warning.
C19_RedefinitionLastWriteWins ==
  [][ (last'.op = "define" /\ last'.invoked /\ ~last'.threw) =>
        LET k == last'.key
        IN /\ Cardinality({i \in 1..Len(rules') : rules'[i].key = k}) = 1
           /\ \A i \in 1..Len(rules') :
                rules'[i].key = k => rules'[i].value = last'.result
           /\ hasOwn(rules, k) =>
                /\ Len(rules') = Len(rules)
                /\ \A i \in 1..Len(rules) :
                     /\ rules'[i].key = rules[i].key
                     /\ rules[i].key # k => rules'[i] = rules[i]
                /\ last'.overwrite <=> ~production
                /\ ~production => last'.warned >= 1
           /\ ~hasOwn(rules, k) =>
                /\ ~last'.overwrite
                /\ Len(rules') = Len(rules) + 1
                /\ SubSeq(rules', 1, Len(rules)) = rules ]_vars

\* the first of two rules was defined again, with a warning, and holds the
\* new rule in its old place
C19_Witness ==
  /\ last.op = "define"
  /\ ~last.threw
  /\ last.overwrite
  /\ Len(rules) = 2
  /\ rules[1].key = last.key
  /\ rules[1].value = last.result
  /\ rules[1].value # rules[2].value

RECURSIVE occursIn(_, _)
occursIn(sub, s) ==
  IF Len(s) < Len(sub) THEN FALSE
  ELSE startsWith(s, sub) \/ occursIn(sub, Tail(s))

\* C20: references are not validated: a call that throws before or without
\* a builder function throws one of the three errors of define and build,
\* a define or root whose builder function ran throws the error of range
\* or succeeds, whatever names the returned rule refers to, and build() of
\* a registry with a root succeeds and prints the normalized name of every
\* reference to a name without a rule.
C20_DanglingReferenceNeverFails ==
  /\ (last.threw /\ ~last.invoked) => last.message \in StructuralErrors
  /\ (last.threw /\ last.invoked) =>
       \E str \in RangeStrings : last.message = rangeMessage(str)
  /\ (last.op = "build" /\ hasOwn(rules, ROOT)) =>
       /\ ~last.threw
       /\ \A id \in danglingIds(rules) : occursIn(kebabCase(id), last.returned)

\* a grammar was built whose rules refer to a name that heads no line
C20_Witness ==
  /\ last.op = "build"
  /\ ~last.threw
  /\ \E id \in danglingIds(rules) :
       /\ \A i \in 1..Len(rules) : kebabCase(rules[i].key) # kebabCase(id)
       /\ occursIn(kebabCase(id), last.returned)

(***************************************************************************)
(* The heads of the lines of a built text, a second root().                *)
(***************************************************************************)
\* the lines of a text, and the name a line begins with (up to " ::= ")
RECURSIVE linesOf(_)
linesOf(str) ==
  IF \A i \in 1..Len(str) : str[i] # "\n" THEN <<str>>
  ELSE LET n == CHOOSE i \in 1..Len(str) :
                  str[i] = "\n" /\ \A j \in 1..(i - 1) : str[j] # "\n"
       IN <<SubSeq(str, 1, n - 1)>> \o linesOf(SubSeq(str, n + 1, Len(str)))

headOf(line) ==
  LET n == CHOOSE i \in 1..Len(line) :
             line[i] = " " /\ \A j \in 1..(i - 1) : line[j] # " "
  IN SubSeq(line, 1, n - 1)

heads(str) == [i \in 1..Len(linesOf(str)) |-> headOf(linesOf(str)[i])]

\* the references a rule holds
RECURSIVE refNodes(_)
refNodes(rule) ==
  CASE rule.ruleType = "ref" -> {rule}
    [] rule.ruleType \in {"sequence", "oneOf"} ->
         UNION {refNodes(rule.parts[i]) : i \in 1..Len(rule.parts)}
    [] OTHER -> {}

\* the text of a reference without the glyph of its cardinality
token(rf) ==
  SubSeq(parser(rf), 1, Len(parser(rf)) - Len(glyph(rf.cardinality)))

\* C21: a name is normalized in the same way where a rule is defined and
\* where it is referred to: in a built text, the token printed for a
\* reference to a name of the registry, its cardinality glyph left aside,
\* is the head of the line of the rule stored under that name.
C21_SameNameAtHeadAndReference ==
  (last.op = "build" /\ ~last.threw) =>
    LET es == ObjectEntries(rules)
        hs == heads(last.returned)
    IN /\ Len(hs) = Len(es)
       /\ \A i \in 1..Len(es) : \A j \in 1..Len(es) :
            \A rf \in refNodes(es[j].value) :
              rf.id = es[i].key =>
                /\ token(rf) = hs[i]
                /\ occursIn(token(rf), linesOf(last.returned)[j])

\* a grammar was built in which a rule refers to the rule aB, printed a-b
C21_Witness ==
  /\ last.op = "build"
  /\ ~last.threw
  /\ \E i \in 1..Len(rules) : \E j \in 1..Len(rules) :
       /\ rules[i].key = <<"a", "B">>
       /\ ref(<<"a", "B">>) \in refNodes(rules[j].value)
  /\ \E k \in 1..Len(heads(last.returned)) :
       heads(last.returned)[k] = <<"a", "-", "b">>

positionOf(rs, key) == CHOOSE i \in 1..Len(rs) : rs[i].key = key

\* C22: root() on a registry that has a root rule runs the builder
\* function and, when that returns, succeeds with no warning of its own,
\* stores the returned rule as the root rule, leaves every defined rule
\* and the place of the root line in the output as they were, and the
\* registry keeps its root.
C22_SecondRootOverwrites ==
  [][ (last'.op = "root" /\ hasOwn(rules, ROOT)) =>
        /\ last'.invoked
        /\ last'.threw =>
             /\ \E str \in RangeStrings : last'.message = rangeMessage(str)
             /\ rules' = rules
        /\ ~last'.threw =>
             /\ last'.warned = last'.fnWarned
             /\ Len(rules') = Len(rules)
             /\ \A i \in 1..Len(rules) :
                  /\ rules'[i].key = rules[i].key
                  /\ rules[i].key # ROOT => rules'[i] = rules[i]
                  /\ rules[i].key = ROOT => rules'[i].value = last'.result
             /\ hasOwn(rules', ROOT)
             /\ positionOf(ObjectEntries(rules'), ROOT)
                  = positionOf(ObjectEntries(rules), ROOT)
             /\ Len(buildLines(rules')) = Len(buildLines(rules)) ]_vars

\* root() replaced the root rule of a registry with a defined rule
C22_Witness ==
  /\ last.op = "root"
  /\ last.hadRoot
  /\ ~last.threw
  /\ last.warned = 0
  /\ Len(rules) = 2
  /\ rules[2].key = ROOT
  /\ rules[2].value = last.result

\* C23: in a text build() returns one line has the head root and no two
\* lines have the same head.
C23_LineHeadsAreDistinct ==
  (last.op = "build" /\ ~last.threw) =>
    LET hs == heads(last.returned)
    IN /\ Cardinality({i \in 1..Len(hs) : hs[i] = ROOT}) = 1
       /\ \A i \in 1..Len(hs) : \A j \in 1..Len(hs) :
            hs[i] = hs[j] => i = j

====
